---- MODULE Spec2Model ----
(***************************************************************************)
(* Model of the sentiment-analysis microservice.                           *)
(*                                                                         *)
(*   app/main.py       the /query handler (query_model): readiness gate,   *)
(*                     classifier call, insert into query_logs through a   *)
(*                     per-call SQLAlchemy session, commit, refresh,       *)
(*                     rollback in the except clause, close in finally.    *)
(*   dashboard/app.py  one Streamlit script run: load_data, the time-range *)
(*                     filter and the KPI metrics.                         *)
(*                                                                         *)
(* Spec     : concurrent /query calls against one store.                   *)
(* SpecDash : dashboard runs over a store filled by committed /query rows. *)
(*                                                                         *)
(* Conventions.  Time is counted in whole hours (the three windows of the  *)
(* dashboard are 1, 24 and 168 hours).  A confidence score is an integer   *)
(* number of hundredths.  A mean is kept as an exact fraction [num, den].  *)
(* The classifier and the database are external: the classifier returns a *)
(* list of candidates or raises; every database call either succeeds or   *)
(* raises; a commit that raises persists nothing (transaction atomicity),  *)
(* and Session.close() does not raise.                                     *)
(***************************************************************************)
EXTENDS Integers, Sequences, FiniteSets, TLC

(* ------------------------------ bounds -------------------------------- *)
\* number of /query calls (each runs once; they interleave freely)
NumCalls == 2
\* number of times the store clock advances
MaxTicks == 2
\* number of rows the store holds in SpecDash
MaxRows == 2

Calls == 1..NumCalls
Texts == {"love", "hate"}
\* how far the store clock may advance in one step (hours)
ClockSteps == {1, 24, 168}

(* ------------------------- program constants -------------------------- *)
HTTP_OK == 200
HTTP_UNAVAILABLE == 503
HTTP_INTERNAL == 500
LoadLimit == 5000
HourWindow == 1
DayWindow == 24
WeekWindow == 168

VARIABLES
    sentiment_pipeline, \* "pipeline" | "None": module global set at import
    query_logs,         \* the table: sequence of committed rows, insertion order
    nextId,             \* the primary-key sequence of query_logs
    clock,              \* the store's clock (func.now())
    ticks,              \* how often the clock advanced (bounds the model)
    pc,                 \* per call: position in query_model
    text,               \* per call: request.text
    model_result,       \* per call: what sentiment_pipeline(request.text) returned
    sentiment_label,    \* per call: local variable
    sentiment_score,    \* per call: local variable
    db,                 \* per call: handle of the session it opened (0: none)
    sessions,           \* per session handle: [open, pending]
    cause,              \* per call: the exception the except clause caught
    response,           \* per call: the HTTP response
    committed,          \* per call: ids of the rows its commit inserted (history)
    engine,             \* dashboard: cached get_database_connection() result
    dash                \* dashboard: outcome of the latest script run

svcVars == <<sentiment_pipeline, pc, text, model_result, sentiment_label,
             sentiment_score, db, sessions, cause, response, committed>>
storeVars == <<query_logs, nextId, clock, ticks>>
dashVars == <<engine, dash>>
vars == <<svcVars, storeVars, dashVars>>

(* ------------------------------ helpers ------------------------------- *)
Range(s) == {s[i] : i \in 1..Len(s)}

RECURSIVE SumScores(_)
SumScores(s) == IF s = <<>> THEN 0 ELSE Head(s).model_score + SumScores(Tail(s))

(* ---------------------------- app/main.py ------------------------------ *)
NoResponse == [status |-> 0]

\* seeded fault: the handler without its readiness gate
ReadyAlways == TRUE

\* the readiness gate: "if sentiment_pipeline is None"
Ready == sentiment_pipeline # "None"

\* what the classifier may return for a text: its candidate list, most
\* confident first, or an empty list
Candidates(t) ==
    IF t = "love"
    THEN << [label |-> "POSITIVE", score |-> 98], [label |-> "NEGATIVE", score |-> 2] >>
    ELSE << [label |-> "NEGATIVE", score |-> 95] >>

ClassifierReturns(t) == {Candidates(t), <<>>}

\* seeded fault: the last candidate instead of the first
LastCandidate(r) == r[Len(r)]

\* model_result[0]
FirstCandidate(r) == r[1]

\* QueryLog(input_text=..., model_label=..., model_score=...): id and
\* timestamp are left to the store
NewLog(t, l, s) == [input_text |-> t, model_label |-> l, model_score |-> s]

\* seeded fault: one module-level session shared by all calls
SharedSession(c) == 1

\* SessionLocal(): a fresh session object for the calling request
SessionLocal(c) == c

\* the INSERT of one pending object: the store assigns id (primary-key
\* sequence) and timestamp (server_default=func.now())
InsertRow(table, n, now, log) ==
    Append(table, [id |-> n, timestamp |-> now, input_text |-> log.input_text,
                   model_label |-> log.model_label, model_score |-> log.model_score])

RECURSIVE Flush(_, _, _, _)
\* db.commit(): flush every pending object of the session, in add order
Flush(table, n, now, pending) ==
    IF pending = <<>> THEN table
    ELSE Flush(InsertRow(table, n, now, Head(pending)), n + 1, now, Tail(pending))

\* QueryResponse(input_text=..., sentiment_label=..., sentiment_score=...)
QueryResponse(t, l, s) ==
    [status |-> HTTP_OK, input_text |-> t, sentiment_label |-> l, sentiment_score |-> s]

\* HTTPException(status_code=500, detail=f"... {e}")
InternalError(e) == [status |-> HTTP_INTERNAL, detail |-> e]

\* an exception that leaves the handler uncaught: the server answers with a
\* bare 500 that does not name the cause
UnhandledError == [status |-> HTTP_INTERNAL, detail |-> "Internal Server Error"]

(* -------------------------- dashboard/app.py --------------------------- *)
TimeRanges == {"All Time", "Last Hour", "Last 24 Hours", "Last 7 Days"}

Zero == [num |-> 0, den |-> 1]

\* no script run yet
NoRun ==
    [status |-> "none", load |-> "none", df |-> <<>>, body |-> FALSE,
     time_filter |-> "All Time", now |-> 0, view |-> <<>>,
     total_queries |-> 0, positive_count |-> 0, negative_count |-> 0,
     avg_score |-> Zero, messages |-> {}]

\* lines 34-43: no DATABASE_URL, or create_engine raised: None
get_database_connection(url_set, created) ==
    IF ~url_set THEN "None" ELSE IF ~created THEN "None" ELSE "Engine"

RECURSIVE Orderings(_)
Orderings(S) ==
    IF S = {} THEN {<<>>}
    ELSE UNION {{<<x>> \o p : p \in Orderings(S \ {x})} : x \in S}

\* ORDER BY timestamp DESC: any order of the rows that is descending in
\* timestamp (the store does not fix the order of equal timestamps)
OrderByTimestampDesc(table) ==
    {s \in Orderings(Range(table)) :
        \A i \in 1..(Len(s) - 1) : s[i].timestamp >= s[i + 1].timestamp}

\* LIMIT n
Limit(s, n) == IF Len(s) <= n THEN s ELSE SubSeq(s, 1, n)

\* seeded fault: load_data without its try/except
load_dataReraise(eng, read_raises, table) ==
    IF eng = "None"
    THEN {[df |-> <<>>, load |-> "no_engine", raised |-> FALSE, messages |-> {}]}
    ELSE IF read_raises
         THEN {[df |-> <<>>, load |-> "read_error", raised |-> TRUE, messages |-> {}]}
         ELSE {[df |-> Limit(s, LoadLimit), load |-> "ok", raised |-> FALSE,
                messages |-> {}] : s \in OrderByTimestampDesc(table)}

\* lines 47-59: what load_data may return; raised marks an exception leaving it
load_data(eng, read_raises, table) ==
    IF eng = "None"
    THEN {[df |-> <<>>, load |-> "no_engine", raised |-> FALSE, messages |-> {}]}
    ELSE IF read_raises
         THEN {[df |-> <<>>, load |-> "read_error", raised |-> FALSE,
                messages |-> {"Error fetching data"}]}
         ELSE {[df |-> Limit(s, LoadLimit), load |-> "ok", raised |-> FALSE,
                messages |-> {}] : s \in OrderByTimestampDesc(table)}

RECURSIVE AfterOrAt(_, _)
\* seeded fault: df[df['timestamp'] >= cutoff]
AfterOrAt(df, cutoff) ==
    IF df = <<>> THEN <<>>
    ELSE IF Head(df).timestamp >= cutoff
         THEN <<Head(df)>> \o AfterOrAt(Tail(df), cutoff)
         ELSE AfterOrAt(Tail(df), cutoff)

RECURSIVE After(_, _)
\* df[df['timestamp'] > cutoff]
After(df, cutoff) ==
    IF df = <<>> THEN <<>>
    ELSE IF Head(df).timestamp > cutoff
         THEN <<Head(df)>> \o After(Tail(df), cutoff)
         ELSE After(Tail(df), cutoff)

\* lines 79-87: the time-range filter
ApplyTimeFilter(df, time_filter, now) ==
    IF time_filter = "Last Hour" THEN After(df, now - HourWindow)
    ELSE IF time_filter = "Last 24 Hours" THEN After(df, now - DayWindow)
    ELSE IF time_filter = "Last 7 Days" THEN After(df, now - WeekWindow)
    ELSE df

RECURSIVE WithLabel(_, _)
\* df[df['model_label'] == l]
WithLabel(df, l) ==
    IF df = <<>> THEN <<>>
    ELSE IF Head(df).model_label = l
         THEN <<Head(df)>> \o WithLabel(Tail(df), l)
         ELSE WithLabel(Tail(df), l)

\* line 96
total_queries(df) == Len(df)
\* line 97
positive_count(df) == Len(WithLabel(df, "POSITIVE"))
\* line 98
negative_count(df) == Len(WithLabel(df, "NEGATIVE"))
\* df['model_score'].mean()
Mean(df) == [num |-> SumScores(df), den |-> Len(df)]
\* seeded fault: the mean without the guard for an empty frame
avg_scoreUnguarded(df) == Mean(df)
\* line 99
avg_score(df) == IF total_queries(df) > 0 THEN Mean(df) ELSE Zero


(* ------------------------------- Spec ---------------------------------- *)
Init ==
    /\ sentiment_pipeline \in {"pipeline", "None"}
    /\ query_logs = <<>>
    /\ nextId = 1
    /\ clock = 0
    /\ ticks = 0
    /\ pc = [c \in Calls |-> "idle"]
    /\ text = [c \in Calls |-> ""]
    /\ model_result = [c \in Calls |-> <<>>]
    /\ sentiment_label = [c \in Calls |-> ""]
    /\ sentiment_score = [c \in Calls |-> 0]
    /\ db = [c \in Calls |-> 0]
    /\ sessions = [h \in Calls |-> [open |-> FALSE, pending |-> <<>>]]
    /\ cause = [c \in Calls |-> ""]
    /\ response = [c \in Calls |-> NoResponse]
    /\ committed = [c \in Calls |-> {}]
    /\ engine = "Engine"
    /\ dash = NoRun

\* lines 120-124: the model is not available
Unavailable(c) ==
    /\ pc[c] = "idle"
    /\ ~Ready
    /\ \E t \in Texts : text' = [text EXCEPT ![c] = t]
    /\ response' = [response EXCEPT ![c] =
                       [status |-> HTTP_UNAVAILABLE,
                        detail |-> "Model is not available. Check server logs."]]
    /\ pc' = [pc EXCEPT ![c] = "done"]
    /\ UNCHANGED <<sentiment_pipeline, model_result, sentiment_label, sentiment_score,
                   db, sessions, cause, committed, storeVars, dashVars>>

\* lines 120, 126: the gate passes and the call opens its session
OpenSession(c) ==
    /\ pc[c] = "idle"
    /\ Ready
    /\ \E t \in Texts : text' = [text EXCEPT ![c] = t]
    /\ db' = [db EXCEPT ![c] = SessionLocal(c)]
    /\ sessions' = [sessions EXCEPT ![SessionLocal(c)] = [open |-> TRUE, pending |-> <<>>]]
    /\ pc' = [pc EXCEPT ![c] = "infer"]
    /\ UNCHANGED <<sentiment_pipeline, model_result, sentiment_label, sentiment_score,
                   cause, response, committed, storeVars, dashVars>>

\* line 129 raises
InferRaises(c) ==
    /\ pc[c] = "infer"
    /\ cause' = [cause EXCEPT ![c] = "inference"]
    /\ pc' = [pc EXCEPT ![c] = "except"]
    /\ UNCHANGED <<sentiment_pipeline, text, model_result, sentiment_label,
                   sentiment_score, db, sessions, response, committed,
                   storeVars, dashVars>>

\* line 129 returns an empty list: line 132 raises IndexError
InferEmpty(c) ==
    /\ pc[c] = "infer"
    /\ <<>> \in ClassifierReturns(text[c])
    /\ model_result' = [model_result EXCEPT ![c] = <<>>]
    /\ cause' = [cause EXCEPT ![c] = "extraction"]
    /\ pc' = [pc EXCEPT ![c] = "except"]
    /\ UNCHANGED <<sentiment_pipeline, text, sentiment_label, sentiment_score, db,
                   sessions, response, committed, storeVars, dashVars>>

\* lines 129-141: classify, take the first candidate, build the row, db.add
InferAdd(c) ==
    /\ pc[c] = "infer"
    /\ \E r \in ClassifierReturns(text[c]) \ {<<>>} :
          /\ model_result' = [model_result EXCEPT ![c] = r]
          /\ sentiment_label' = [sentiment_label EXCEPT ![c] = FirstCandidate(r).label]
          /\ sentiment_score' = [sentiment_score EXCEPT ![c] = FirstCandidate(r).score]
          /\ sessions' = [sessions EXCEPT ![db[c]].pending =
                             Append(@, NewLog(text[c], FirstCandidate(r).label,
                                              FirstCandidate(r).score))]
    /\ pc' = [pc EXCEPT ![c] = "commit"]
    /\ UNCHANGED <<sentiment_pipeline, text, db, cause, response, committed,
                   storeVars, dashVars>>

\* seeded fault: the insert does not advance the primary-key sequence
CommitOkReuseId(c) ==
    /\ pc[c] = "commit"
    /\ \E now \in {clock, clock + HourWindow} :
          /\ query_logs' = Flush(query_logs, nextId, now, sessions[db[c]].pending)
          /\ clock' = now
    /\ committed' = [committed EXCEPT ![c] = @ \cup {nextId}]
    /\ sessions' = [sessions EXCEPT ![db[c]].pending = <<>>]
    /\ pc' = [pc EXCEPT ![c] = "refresh"]
    /\ UNCHANGED <<sentiment_pipeline, text, model_result, sentiment_label,
                   sentiment_score, db, cause, response, nextId, ticks, dashVars>>

\* line 142 succeeds: the pending rows are inserted and made durable.  The
\* store reads its clock for the insert; the clock never runs backwards.
CommitOk(c) ==
    /\ pc[c] = "commit"
    /\ \E now \in {clock, clock + HourWindow} :
       LET pending == sessions[db[c]].pending IN
          /\ query_logs' = Flush(query_logs, nextId, now, pending)
          /\ nextId' = nextId + Len(pending)
          /\ clock' = now
          /\ committed' = [committed EXCEPT ![c] = @ \cup (nextId..(nextId + Len(pending) - 1))]
    /\ sessions' = [sessions EXCEPT ![db[c]].pending = <<>>]
    /\ pc' = [pc EXCEPT ![c] = "refresh"]
    /\ UNCHANGED <<sentiment_pipeline, text, model_result, sentiment_label,
                   sentiment_score, db, cause, response, ticks, dashVars>>

\* seeded fault: the row is already durable when the commit raises
CommitFailsPersisted(c) ==
    /\ pc[c] = "commit"
    /\ query_logs' = Flush(query_logs, nextId, clock, sessions[db[c]].pending)
    /\ nextId' = nextId + Len(sessions[db[c]].pending)
    /\ cause' = [cause EXCEPT ![c] = "commit"]
    /\ pc' = [pc EXCEPT ![c] = "except"]
    /\ UNCHANGED <<sentiment_pipeline, text, model_result, sentiment_label,
                   sentiment_score, db, sessions, response, committed,
                   clock, ticks, dashVars>>

\* line 142 raises: nothing is persisted; values drawn from the primary-key
\* sequence before the failure are not given back
CommitFails(c) ==
    /\ pc[c] = "commit"
    /\ \E used \in {0, Len(sessions[db[c]].pending)} : nextId' = nextId + used
    /\ cause' = [cause EXCEPT ![c] = "commit"]
    /\ pc' = [pc EXCEPT ![c] = "except"]
    /\ UNCHANGED <<sentiment_pipeline, text, model_result, sentiment_label,
                   sentiment_score, db, sessions, response, committed,
                   query_logs, clock, ticks, dashVars>>

\* lines 143-150: refresh succeeds and the response is built
RefreshReturn(c) ==
    /\ pc[c] = "refresh"
    /\ response' = [response EXCEPT ![c] =
                       QueryResponse(text[c], sentiment_label[c], sentiment_score[c])]
    /\ pc' = [pc EXCEPT ![c] = "finally"]
    /\ UNCHANGED <<sentiment_pipeline, text, model_result, sentiment_label,
                   sentiment_score, db, sessions, cause, committed,
                   storeVars, dashVars>>

\* line 143 raises, after the commit
RefreshFails(c) ==
    /\ pc[c] = "refresh"
    /\ cause' = [cause EXCEPT ![c] = "refresh"]
    /\ pc' = [pc EXCEPT ![c] = "except"]
    /\ UNCHANGED <<sentiment_pipeline, text, model_result, sentiment_label,
                   sentiment_score, db, sessions, response, committed,
                   storeVars, dashVars>>

\* lines 152-158: rollback discards what the session has not committed and
\* the handler raises the 500 that names the cause
RollbackOk(c) ==
    /\ pc[c] = "except"
    /\ sessions' = [sessions EXCEPT ![db[c]].pending = <<>>]
    /\ response' = [response EXCEPT ![c] = InternalError(cause[c])]
    /\ pc' = [pc EXCEPT ![c] = "finally"]
    /\ UNCHANGED <<sentiment_pipeline, text, model_result, sentiment_label,
                   sentiment_score, db, cause, committed, storeVars, dashVars>>

\* seeded fault: db.close() not in a finally clause, so skipped when rollback raises
RollbackFailsNoClose(c) ==
    /\ pc[c] = "except"
    /\ response' = [response EXCEPT ![c] = UnhandledError]
    /\ pc' = [pc EXCEPT ![c] = "done"]
    /\ UNCHANGED <<sentiment_pipeline, text, model_result, sentiment_label,
                   sentiment_score, db, sessions, cause, committed,
                   storeVars, dashVars>>

\* line 153 raises: the new exception leaves the except clause
RollbackFails(c) ==
    /\ pc[c] = "except"
    /\ response' = [response EXCEPT ![c] = UnhandledError]
    /\ pc' = [pc EXCEPT ![c] = "finally"]
    /\ UNCHANGED <<sentiment_pipeline, text, model_result, sentiment_label,
                   sentiment_score, db, sessions, cause, committed,
                   storeVars, dashVars>>

\* lines 159-160: finally: db.close(); the response reaches the caller
Close(c) ==
    /\ pc[c] = "finally"
    /\ sessions' = [sessions EXCEPT ![db[c]] = [open |-> FALSE, pending |-> <<>>]]
    /\ pc' = [pc EXCEPT ![c] = "done"]
    /\ UNCHANGED <<sentiment_pipeline, text, model_result, sentiment_label,
                   sentiment_score, db, cause, response, committed,
                   storeVars, dashVars>>

(* ----------------------------- SpecDash -------------------------------- *)
\* one run of the script, top to bottom
DashboardRun ==
    \E read_raises \in BOOLEAN, sel \in TimeRanges :
    \E r \in load_data(engine, read_raises, query_logs) :
       LET msgs0 == r.messages \cup
                    (IF engine = "None" THEN {"Database connection unavailable"} ELSE {})
           view == ApplyTimeFilter(r.df, sel, clock)
       IN
       /\ dash' =
            IF r.raised
            THEN [NoRun EXCEPT !.status = "aborted", !.load = r.load]
            ELSE IF r.df = <<>>
            THEN [NoRun EXCEPT !.status = "completed", !.load = r.load,
                               !.messages = msgs0]
            ELSE [status |-> "completed", load |-> r.load, df |-> r.df,
                  body |-> TRUE, time_filter |-> sel, now |-> clock, view |-> view,
                  total_queries |-> total_queries(view),
                  positive_count |-> positive_count(view),
                  negative_count |-> negative_count(view),
                  avg_score |-> avg_score(view),
                  messages |-> msgs0 \cup
                      (IF view = <<>>
                       THEN {"No data available for the selected time range."}
                       ELSE {})]
       /\ UNCHANGED <<svcVars, storeVars, engine>>

\* the store's clock advances by d hours
Elapse(d) ==
    /\ ticks < MaxTicks
    /\ clock' = clock + d
    /\ ticks' = ticks + 1
    /\ UNCHANGED <<svcVars, query_logs, nextId, dashVars>>

\* a /query call that succeeded has left its row in the store
\* (main.py lines 129-142 on the path where nothing raises)
StoreWrite ==
    /\ Len(query_logs) < MaxRows
    /\ \E t \in Texts : \E r \in ClassifierReturns(t) \ {<<>>} :
          query_logs' = Flush(query_logs, nextId, clock,
                              <<NewLog(t, FirstCandidate(r).label, FirstCandidate(r).score)>>)
    /\ nextId' = nextId + 1
    /\ UNCHANGED <<svcVars, clock, ticks, dashVars>>

InitDash ==
    /\ sentiment_pipeline = "pipeline"
    /\ query_logs = <<>>
    /\ nextId = 1
    /\ clock = 0
    /\ ticks = 0
    /\ pc = [c \in Calls |-> "idle"]
    /\ text = [c \in Calls |-> ""]
    /\ model_result = [c \in Calls |-> <<>>]
    /\ sentiment_label = [c \in Calls |-> ""]
    /\ sentiment_score = [c \in Calls |-> 0]
    /\ db = [c \in Calls |-> 0]
    /\ sessions = [h \in Calls |-> [open |-> FALSE, pending |-> <<>>]]
    /\ cause = [c \in Calls |-> ""]
    /\ response = [c \in Calls |-> NoResponse]
    /\ committed = [c \in Calls |-> {}]
    /\ \E url_set \in BOOLEAN, created \in BOOLEAN :
          engine = get_database_connection(url_set, created)
    /\ dash = NoRun

NextDash ==
    \/ StoreWrite
    \/ \E d \in ClockSteps : Elapse(d)
    \/ DashboardRun

SpecDash == InitDash /\ [][NextDash]_vars

Next ==
    \/ \E c \in Calls : Unavailable(c)
    \/ \E c \in Calls : OpenSession(c)
    \/ \E c \in Calls : InferRaises(c)
    \/ \E c \in Calls : InferEmpty(c)
    \/ \E c \in Calls : InferAdd(c)
    \/ \E c \in Calls : CommitOk(c)
    \/ \E c \in Calls : CommitFails(c)
    \/ \E c \in Calls : RefreshReturn(c)
    \/ \E c \in Calls : RefreshFails(c)
    \/ \E c \in Calls : RollbackOk(c)
    \/ \E c \in Calls : RollbackFails(c)
    \/ \E c \in Calls : Close(c)

Spec == Init /\ [][Next]_vars

(* =============================== claims ================================ *)
Done(c) == pc[c] = "done"
Succeeded(c) == Done(c) /\ response[c].status = HTTP_OK
InProgress(c) == pc[c] \notin {"idle", "done"}

\* positions in query_logs of the rows call c's commit inserted
RowsOf(c) == {i \in 1..Len(query_logs) : query_logs[i].id \in committed[c]}

\* s is an initial part of t
IsPrefix(s, t) == Len(s) <= Len(t) /\ \A i \in 1..Len(s) : s[i] = t[i]

(* C1: a /query call that returns success has added exactly one row; that  *)
(* row holds the submitted text and the label and score of the response,   *)
(* which are those of the first candidate the classifier returned; the     *)
(* response repeats the submitted text.                                    *)
C1_SuccessLogsOneMatchingRow ==
    \A c \in Calls :
        Succeeded(c) =>
            /\ Cardinality(committed[c]) = 1
            /\ Cardinality(RowsOf(c)) = 1
            /\ \A i \in RowsOf(c) :
                  /\ query_logs[i].input_text = text[c]
                  /\ query_logs[i].model_label = response[c].sentiment_label
                  /\ query_logs[i].model_score = response[c].sentiment_score
            /\ response[c].input_text = text[c]
            /\ response[c].sentiment_label = model_result[c][1].label
            /\ response[c].sentiment_score = model_result[c][1].score

\* a call succeeded on a classifier result with more than one candidate
C1_Witness ==
    \E c \in Calls : Succeeded(c) /\ Len(model_result[c]) > 1 /\ RowsOf(c) # {}

(* C2: readiness never changes; while the classifier is not loaded no step *)
(* opens a session or changes query_logs, every idle call can be answered, *)
(* and every answered call carries the service-unavailable status.         *)
C2_UnavailableNeverTouchesStore ==
    [][ /\ sentiment_pipeline' = sentiment_pipeline
        /\ sentiment_pipeline = "None" =>
              /\ query_logs' = query_logs
              /\ nextId' = nextId
              /\ sessions' = sessions
              /\ db' = db
              /\ \A c \in Calls :
                    Done(c)' => response'[c].status = HTTP_UNAVAILABLE ]_vars

\* the classifier failed to load and a call has been answered
C2_Witness ==
    /\ sentiment_pipeline = "None"
    /\ \E c \in Calls : Done(c) /\ response[c].status = HTTP_UNAVAILABLE

(* C3: a call whose commit raised ends with the internal-error status and  *)
(* has persisted no row, the failing commit leaves query_logs as it was,   *)
(* and a call that returns success has committed its insert.               *)
C3_CommitFailureIsInternalErrorNoRow ==
    /\ [](\A c \in Calls :
            /\ cause[c] = "commit" =>
                  /\ response[c].status # HTTP_OK
                  /\ committed[c] = {}
                  /\ Done(c) => response[c].status = HTTP_INTERNAL
            /\ Succeeded(c) => RowsOf(c) # {})
    /\ [][\A c \in Calls :
            (cause[c] # "commit" /\ cause'[c] = "commit") =>
                query_logs' = query_logs]_vars

\* a call ended after its commit raised, while another call's row is stored
C3_Witness ==
    \E c \in Calls :
        /\ Done(c) /\ cause[c] = "commit"
        /\ response[c] = InternalError("commit")
        /\ query_logs # <<>>

(* C4 (as claimed): a call that passed the readiness gate and failed at    *)
(* any step ends with the internal-error status, and no row written by     *)
(* that call is in query_logs.  (The claim also wants the response to      *)
(* carry the cause; C4_CauseCarried states that part.)                     *)
C4_AnyFailureLeavesNoRow ==
    \A c \in Calls :
        (Done(c) /\ cause[c] # "") =>
            /\ response[c].status = HTTP_INTERNAL
            /\ RowsOf(c) = {}

\* the response of a failed call names the failure the handler caught
C4_CauseCarried ==
    \A c \in Calls :
        (Done(c) /\ cause[c] # "") => response[c] = InternalError(cause[c])

(* C5: the ids in query_logs are pairwise distinct, grow with insertion    *)
(* order and lie below the sequence's next value (none is reused);         *)
(* timestamps do not decrease with insertion order; two successful calls   *)
(* with the same text leave two separate rows.                             *)
C5_IdsDistinctTimestampsMonotone ==
    /\ \A i, j \in 1..Len(query_logs) :
          i < j => /\ query_logs[i].id < query_logs[j].id
                   /\ query_logs[i].timestamp <= query_logs[j].timestamp
    /\ \A i \in 1..Len(query_logs) : query_logs[i].id < nextId
    /\ \A c, d \in Calls :
          (c # d /\ Succeeded(c) /\ Succeeded(d) /\ text[c] = text[d]) =>
              /\ RowsOf(c) # {} /\ RowsOf(d) # {}
              /\ RowsOf(c) \cap RowsOf(d) = {}

\* two calls with the same text both succeeded
C5_Witness ==
    \E c, d \in Calls :
        /\ c # d /\ Succeeded(c) /\ Succeeded(d) /\ text[c] = text[d]
        /\ Len(query_logs) >= 2

(* C9: a session is open only while the call that opened it is in          *)
(* progress: when a call has ended, on any path, its session is closed;    *)
(* a call answered with 503 never opened one.                              *)
C9_SessionsClosedWhenCallEnds ==
    /\ \A h \in DOMAIN sessions :
          sessions[h].open => \E c \in Calls : db[c] = h /\ InProgress(c)
    /\ \A c \in Calls :
          (Done(c) /\ db[c] # 0) => ~sessions[db[c]].open
    /\ \A c \in Calls :
          (Done(c) /\ response[c].status = HTTP_UNAVAILABLE) => db[c] = 0

\* a call ended through a rollback that itself raised
C9_Witness ==
    \E c \in Calls :
        Done(c) /\ cause[c] = "commit" /\ response[c] = UnhandledError /\ db[c] # 0

(* C10: every call has its own session; a step of one call leaves the      *)
(* stored rows, and every other call's locals, session and response, as    *)
(* they were; when all calls have ended the table holds as many rows as    *)
(* commits succeeded, and a successful response carries the label and      *)
(* score of the call's own text.                                           *)
C10_FailuresContained ==
    /\ [](/\ \A c, d \in Calls : (c # d /\ db[c] # 0) => db[c] # db[d]
          /\ (\A c \in Calls : Done(c)) =>
                Len(query_logs) = Cardinality({c \in Calls : committed[c] # {}})
          /\ \A c \in Calls :
                Succeeded(c) =>
                    /\ response[c].sentiment_label = FirstCandidate(Candidates(text[c])).label
                    /\ response[c].sentiment_score = FirstCandidate(Candidates(text[c])).score)
    /\ [][/\ IsPrefix(query_logs, query_logs')
          /\ \A c, d \in Calls :
                (c # d /\ pc'[c] # pc[c]) =>
                    /\ pc'[d] = pc[d]
                    /\ response'[d] = response[d]
                    /\ text'[d] = text[d]
                    /\ model_result'[d] = model_result[d]
                    /\ sentiment_label'[d] = sentiment_label[d]
                    /\ sentiment_score'[d] = sentiment_score[d]
                    /\ committed'[d] = committed[d]
                    /\ db[d] # 0 => sessions'[db[d]] = sessions[db[d]]]_vars

\* one call is in its error handler while another has committed its row
C10_Witness ==
    \E c, d \in Calls :
        /\ c # d /\ pc[c] = "except" /\ cause[c] = "commit"
        /\ pc[d] = "refresh" /\ RowsOf(d) # {}

(* ---------------------------- dashboard -------------------------------- *)
Window(time_filter) ==
    IF time_filter = "Last Hour" THEN HourWindow
    ELSE IF time_filter = "Last 24 Hours" THEN DayWindow
    ELSE WeekWindow

\* the rows of df a time range is to keep at reference time now
Expected(df, time_filter, now) ==
    {r \in Range(df) :
        time_filter = "All Time" \/ r.timestamp > now - Window(time_filter)}

RECURSIVE ScoreSum(_, _)
\* model_score summed over the first n rows
ScoreSum(df, n) == IF n = 0 THEN 0 ELSE df[n].model_score + ScoreSum(df, n - 1)

CountLabel(df, l) == Cardinality({i \in 1..Len(df) : df[i].model_label = l})

(* C6: for the loaded rows and the run's reference time, the time-range    *)
(* filter keeps exactly the rows with timestamp strictly after now minus   *)
(* the window (all rows for All Time), in their loaded order, and the four *)
(* results are nested.                                                     *)
C6_TimeFilterExactAndNested ==
    dash.body =>
        /\ Range(dash.view) = Expected(dash.df, dash.time_filter, dash.now)
        /\ Len(dash.view) = Cardinality(Range(dash.view))
        /\ \A i, j \in 1..Len(dash.view) :
              i < j => \E k, l \in 1..Len(dash.df) :
                          k < l /\ dash.df[k] = dash.view[i] /\ dash.df[l] = dash.view[j]
        /\ Range(ApplyTimeFilter(dash.df, "Last Hour", dash.now))
              \subseteq Range(ApplyTimeFilter(dash.df, "Last 24 Hours", dash.now))
        /\ Range(ApplyTimeFilter(dash.df, "Last 24 Hours", dash.now))
              \subseteq Range(ApplyTimeFilter(dash.df, "Last 7 Days", dash.now))
        /\ Range(ApplyTimeFilter(dash.df, "Last 7 Days", dash.now))
              \subseteq Range(ApplyTimeFilter(dash.df, "All Time", dash.now))
        /\ ApplyTimeFilter(dash.df, "All Time", dash.now) = dash.df

\* Last Hour was selected with a row exactly one hour old (dropped) and the
\* 24-hour window keeping a row that the hour window drops
C6_Witness ==
    /\ dash.body
    /\ dash.time_filter = "Last Hour"
    /\ \E i \in 1..Len(dash.df) : dash.df[i].timestamp = dash.now - HourWindow
    /\ dash.view # ApplyTimeFilter(dash.df, "Last 24 Hours", dash.now)
    /\ ApplyTimeFilter(dash.df, "Last 24 Hours", dash.now) # dash.df

(* C7: over the filtered rows, total_queries is their number, the positive *)
(* and negative counts are the numbers of rows labelled exactly POSITIVE   *)
(* and NEGATIVE and together do not exceed the total, and avg_score is 0   *)
(* for no rows and otherwise the sum of the scores divided by the total.   *)
C7_AggregatesCorrect ==
    dash.body =>
        /\ dash.total_queries = Len(dash.view)
        /\ dash.positive_count = CountLabel(dash.view, "POSITIVE")
        /\ dash.negative_count = CountLabel(dash.view, "NEGATIVE")
        /\ dash.positive_count + dash.negative_count <= dash.total_queries
        /\ dash.avg_score.den # 0
        /\ dash.view = <<>> => dash.avg_score.num = 0
        /\ dash.view # <<>> =>
              dash.avg_score.num * dash.total_queries
                  = ScoreSum(dash.view, Len(dash.view)) * dash.avg_score.den

\* two rows of different labels and scores were aggregated
C7_Witness ==
    /\ dash.body
    /\ dash.total_queries = 2
    /\ dash.positive_count = 1
    /\ dash.negative_count = 1

(* C8: a run whose store is unreachable (no engine, or the read raised)    *)
(* gets an empty result from load_data, completes without aborting and     *)
(* shows no data; no run ever aborts on loading, and no run changes        *)
(* query_logs.                                                             *)
C8_UnreachableStoreDegrades ==
    /\ [](/\ dash.status # "aborted"
          /\ dash.load \in {"no_engine", "read_error"} =>
                /\ dash.status = "completed"
                /\ dash.df = <<>>
                /\ ~dash.body
                /\ dash.total_queries = 0
          /\ (engine = "None" /\ dash.status # "none") => dash.load = "no_engine")
    /\ [][dash' # dash => (query_logs' = query_logs /\ nextId' = nextId)]_vars

\* the read raised although the store holds rows
C8_Witness ==
    dash.load = "read_error" /\ dash.status = "completed" /\ query_logs # <<>>

====
